---- MODULE Spec2Model ----
(***************************************************************************)
(* Driver recommendation system.                                           *)
(*                                                                         *)
(* The repository holds two programs, modelled over one set of variables:  *)
(* the desktop application (DatabaseManager with the trip store and the    *)
(* drivers table, RecommendationEngine, and the handlers of                *)
(* DriverRecommendationGUI that use them) and the stand-alone              *)
(* DriverRecommendationSystem class.                                       *)
(*   Spec      a run of one of the two programs on sheets of a few rows,   *)
(*             one call of the API at a time;                              *)
(*   SpecScore both scorers applied to long trip histories (the caps of    *)
(*             the scoring components need many visits);                   *)
(*   SpecGui   the application with its two worker threads, load_thread    *)
(*             and calculate_thread, the import taken one database         *)
(*             transaction at a time;                                      *)
(*   SpecOverlap the application when a second import is started while the *)
(*             first one runs;                                             *)
(*   SpecCrowd the two rankers on stores of many drivers;                  *)
(*   SpecOrder the aggregates of both programs when the rows of a sheet    *)
(*             are rearranged;                                             *)
(*   SpecMono  the engine rebuilt after one more trip record was added to  *)
(*             a long history.                                             *)
(*                                                                         *)
(* Representation.                                                         *)
(*   - A text that the code splits is a sequence of tokens: a location     *)
(*     name is the sequence of its whitespace-separated words, a driver    *)
(*     field is a sequence of name fragments, "+" and " ".                 *)
(*     A province is a one-word text and the empty string is <<>>.         *)
(*   - NaN (pandas), NULL (sqlite) and None (Python) of a cell are the one *)
(*     marker Null: sqlite stores a NaN parameter as NULL and pandas reads *)
(*     NULL back as None, and pd.notna is false of all three.              *)
(*   - Scores are integers in hundredths of a point, so that round(x, 2)   *)
(*     is an integer operation.                                            *)
(*   - A Python dict is a function whose DOMAIN is its key set; where the  *)
(*     iteration order is used (experience_matrix) the keys are also kept  *)
(*     as a sequence in insertion order.                                   *)
(***************************************************************************)
EXTENDS Integers, Sequences, FiniteSets, TLC

VARIABLES
    trips,      \* table trips of driver_data.db, in id order
    drivers,    \* table drivers of driver_data.db: driver_name -> row
    engine,     \* the RecommendationEngine instance of the application
    out,        \* outcome of the get_top_drivers call the caller has not
                \* consumed yet ("none": the caller is idle)
    raw_data,   \* DriverRecommendationSystem.raw_data
    sys,        \* matrices and stats of the DriverRecommendationSystem
    sysOut,     \* outcome of the last call on the DriverRecommendationSystem
    locations_data,     \* DriverRecommendationGUI.locations_data: its keys
    load_thread,        \* the thread load_data started: its position, sheet
    load_thread2,       \* the thread a second load_data started meanwhile
    calculate_thread    \* the thread calculate_ranking started

vars == <<trips, drivers, engine, out, raw_data, sys, sysOut,
          locations_data, load_thread, load_thread2, calculate_thread>>

appVars == <<trips, drivers, engine, out>>
sysVars == <<raw_data, sys, sysOut>>
guiVars == <<locations_data, load_thread, load_thread2, calculate_thread>>

----------------------------------------------------------------------------
(* Bounds *)

MaxRows == 2        \* rows of an imported sheet
MaxRoute == 5       \* destinations of a ranking request (4 are allowed)
MaxTopN == 3        \* top_n of a ranking request
MaxSysTrips == 3    \* visits counted by a system object before its last build
MaxVisits == 11     \* trips of one driver to one location in a long history
MaxProvinceTrips == 11  \* further trips of that driver in the same province
MaxSimilar == 5     \* further locations of a long history with a similar name
MaxCrowd == 11      \* drivers of a store of many drivers
MaxOrderRows == 3   \* rows of a sheet whose rows are rearranged
MaxAdded == 1       \* trip records added to a long history, one at a time

----------------------------------------------------------------------------
(* Values *)

\* Every cell value is a sequence of tokens (TLC compares like with like):
\* the empty string is <<>>, a province is a one-word text.
Null == <<"<null>">>
Absent == <<"<absent>">>    \* a cell of a column, or a key, that is not there
EmptyStr == <<>>
P1 == <<"P1">>
P2 == <<"P2">>
EmptyDict == <<>>       \* the function with the empty domain

Min(a, b) == IF a < b THEN a ELSE b

notna(x) == x # Null

\* str.lower() of one word
Lower(w) == IF w = "Rayong" THEN "rayong" ELSE w

\* set(text.lower().split())
WordSet(name) == {Lower(name[i]) : i \in DOMAIN name}

StopWords == {"hospital", "the"}

Cancelled == <<"cancelled">>

L1 == <<"hospital", "rayong">>
L2 == <<"Rayong", "clinic">>
L3 == <<"hospital", "maesai">>
L5 == <<"rayong">>

A == <<"A">>
B == <<"B">>

\* dict.get(key, default)
Get(d, k, default) == IF k \in DOMAIN d THEN d[k] ELSE default

\* d[k] += 1 on a defaultdict(int)
Incr(d, k) == IF k \in DOMAIN d THEN [d EXCEPT ![k] = @ + 1] ELSE d @@ (k :> 1)

\* d[k] on a defaultdict whose factory gives an empty dict: the read creates k
Vivify(d, k) == IF k \in DOMAIN d THEN d ELSE d @@ (k :> EmptyDict)

RECURSIVE SumSeq(_)
SumSeq(s) == IF s = <<>> THEN 0 ELSE s[1] + SumSeq(Tail(s))

RECURSIVE SumOver(_, _)
SumOver(f, S) ==
    IF S = {} THEN 0
    ELSE LET x == CHOOSE y \in S : TRUE IN f[x] + SumOver(f, S \ {x})

\* sum(d.values())
SumValues(d) == SumOver(d, DOMAIN d)

Range(s) == {s[i] : i \in DOMAIN s}

----------------------------------------------------------------------------
(* Sheets handed to the import.  A row is [loc, prov, drv]: the cells of   *)
(* the columns 'สถานที่ส่ง', 'จังหวัด' and 'Driver'; a cell of a column     *)
(* the sheet does not have is Absent.  Column "rep" is 'ผู้แทน', which no  *)
(* computation reads; "c1", "c2", "c3" are columns with other names.       *)

ExpectedCols == {"loc", "prov", "drv", "rep"}

ColumnSets ==
    { {"loc", "prov", "drv", "rep"},
      {"loc", "drv", "rep"},
      {"loc", "drv"},
      {"c1", "c2", "c3"} }

Row(l, p, d) == [loc |-> l, prov |-> p, drv |-> d]

RowPool ==
    { Row(L1, P1, <<"A">>),
      Row(L2, Null, <<"A", "+", "B">>),
      Row(L1, EmptyStr, <<" ", "B", " ">>),
      Row(L3, P2, <<"B", "+", " ", "+", "cancelled">>),
      Row(Null, P1, <<"A">>),
      Row(L2, P1, Null) }

SeqsUpTo(S, n) == UNION {[1..k -> S] : k \in 0..n}

\* the cells of a row that the sheet's columns hold
Project(row, cols) ==
    [loc |-> IF "loc" \in cols THEN row.loc ELSE Absent,
     prov |-> IF "prov" \in cols THEN row.prov ELSE Absent,
     drv |-> IF "drv" \in cols THEN row.drv ELSE Absent]

\* fetched: FALSE when no access method gave a sheet
DataFrame(cols, rows) ==
    [fetched |-> TRUE, cols |-> cols,
     rows |-> [i \in DOMAIN rows |-> Project(rows[i], cols)]]

TransportError == [fetched |-> FALSE, cols |-> {}, rows |-> <<>>]

DataFrames ==
    {DataFrame(cols, rows) : cols \in ColumnSets, rows \in SeqsUpTo(RowPool, MaxRows)}

\* row.get(col): None for a missing column
RowGet(row, col) == IF row[col] = Absent THEN Null ELSE row[col]

\* row.get(col, ''): the default for a missing column
RowGetOr(row, col, default) == IF row[col] = Absent THEN default ELSE row[col]

----------------------------------------------------------------------------
(* str.split('+') and str.strip() on a driver field *)

RECURSIVE SplitPlus(_, _)
\* SplitPlus(field, cur): the pieces of cur \o field between the "+" tokens
SplitPlus(field, cur) ==
    IF field = <<>> THEN <<cur>>
    ELSE IF Head(field) = "+" THEN <<cur>> \o SplitPlus(Tail(field), <<>>)
    ELSE SplitPlus(Tail(field), Append(cur, Head(field)))

Split(field) == SplitPlus(field, <<>>)

RECURSIVE LStrip(_)
LStrip(s) == IF s # <<>> /\ Head(s) = " " THEN LStrip(Tail(s)) ELSE s

RECURSIVE RStrip(_)
RStrip(s) ==
    IF s # <<>> /\ s[Len(s)] = " " THEN RStrip(SubSeq(s, 1, Len(s) - 1)) ELSE s

Strip(s) == RStrip(LStrip(s))

\* str(value) of a Driver cell: 'nan' for NaN
Str(cell) == IF cell = Null THEN <<"nan">> ELSE cell

----------------------------------------------------------------------------
(* DatabaseManager *)

Trip(l, p, d) == [location |-> l, province |-> p, driver |-> d]

\* the INSERTs of one row of the sheet (save_trips_data, inner loop)
RECURSIVE InsertDrivers(_, _)
InsertDrivers(row, pieces) ==
    IF pieces = <<>> THEN <<>>
    ELSE LET driver == Strip(Head(pieces))
             rest == InsertDrivers(row, Tail(pieces))
         IN IF driver # <<>> /\ driver # Cancelled /\ driver # <<"nan">>
            THEN <<Trip(RowGetOr(row, "loc", EmptyStr), RowGetOr(row, "prov", EmptyStr), driver)>>
                 \o rest
            ELSE rest

RowTrips(row) ==
    IF notna(RowGet(row, "loc")) /\ notna(RowGet(row, "drv"))
    THEN InsertDrivers(row, Split(Str(RowGetOr(row, "drv", EmptyStr))))
    ELSE <<>>

\* the loop over the rows of the sheet, in order: the INSERTs of the first
\* rows, then those of the rows after them
RECURSIVE InsertRows(_)
InsertRows(rows) ==
    IF rows = <<>> THEN <<>>
    ELSE IF Len(rows) = 1 THEN RowTrips(rows[1])
    ELSE LET mid == Len(rows) \div 2
         IN InsertRows(SubSeq(rows, 1, mid))
            \o InsertRows(SubSeq(rows, mid + 1, Len(rows)))

\* variant: NULL counted as one more value
CountDistinct_Mut(t, d, col) ==
    Cardinality({t[i][col] : i \in {j \in DOMAIN t : t[j].driver = d}})

\* COUNT(DISTINCT col) ... GROUP BY driver: NULLs are not counted
CountDistinct(t, d, col) ==
    Cardinality({t[i][col] : i \in {j \in DOMAIN t : t[j].driver = d}} \ {Null})

\* variant: GROUP BY forgotten in the count of the trips
update_driver_stats_Mut(t) ==
    LET names == {t[i].driver : i \in DOMAIN t} \ {Cancelled}
    IN [d \in names |->
          [total_trips |-> Len(t),
           unique_locations |-> CountDistinct(t, d, "location"),
           provinces_covered |-> CountDistinct(t, d, "province")]]

\* DELETE FROM drivers; INSERT INTO drivers SELECT ... GROUP BY driver
update_driver_stats(t) ==
    LET names == {t[i].driver : i \in DOMAIN t} \ {Cancelled}
    IN [d \in names |->
          [total_trips |-> Cardinality({i \in DOMAIN t : t[i].driver = d}),
           unique_locations |-> CountDistinct(t, d, "location"),
           provinces_covered |-> CountDistinct(t, d, "province")]]

\* DELETE FROM trips; the INSERTs; commit
save_trips_data(df) == InsertRows(df.rows)

\* the keys of the dict get_locations_list returns
get_locations_list(t) ==
    {t[i].location : i \in DOMAIN t} \ {Null, EmptyStr}

\* the value load_from_google_sheets returns for what the transport gave
load_from_google_sheets(df) ==
    /\ df.fetched
    /\ df.rows # <<>>
    /\ Cardinality(df.cols) >= 3
    /\ df.cols \cap ExpectedCols # {}

----------------------------------------------------------------------------
(* RecommendationEngine *)

\* the three attributes __init__ sets, before load_data
EmptyEngine ==
    [keys |-> <<>>,                     \* experience_matrix.keys(), in order
     experience_matrix |-> EmptyDict,
     province_experience |-> EmptyDict,
     drivers_stats |-> EmptyDict]

\* variant: the province counted on a driver's first trip to a location only
AddTrip_Mut(e, row) ==
    LET driver == row.driver
        em == Vivify(e.experience_matrix, driver)
        pe == Vivify(e.province_experience, driver)
    IN [e EXCEPT
          !.keys = IF driver \in DOMAIN e.experience_matrix THEN @
                   ELSE Append(@, driver),
          !.experience_matrix = [em EXCEPT ![driver] = Incr(@, row.location)],
          !.province_experience =
              IF notna(row.province) /\ row.location \notin DOMAIN em[driver]
              THEN [pe EXCEPT ![driver] = Incr(@, row.province)]
              ELSE @]

\* one iteration of the loop over trips_df
AddTrip(e, row) ==
    LET driver == row.driver
        em == Vivify(e.experience_matrix, driver)
        pe == Vivify(e.province_experience, driver)
    IN [e EXCEPT
          !.keys = IF driver \in DOMAIN e.experience_matrix THEN @
                   ELSE Append(@, driver),
          !.experience_matrix = [em EXCEPT ![driver] = Incr(@, row.location)],
          !.province_experience =
              IF notna(row.province)
              THEN [pe EXCEPT ![driver] = Incr(@, row.province)]
              ELSE @]

\* the loop over trips_df, in order: first is the engine after the first
\* records, and the records after them are counted on it
RECURSIVE AddTrips(_, _)
AddTrips(e, t) ==
    IF t = <<>> THEN e
    ELSE IF Len(t) = 1 THEN AddTrip(e, t[1])
    ELSE LET mid == Len(t) \div 2
         IN CHOOSE built \in
                {AddTrips(first, SubSeq(t, mid + 1, Len(t))) :
                     first \in {AddTrips(e, SubSeq(t, 1, mid))}} : TRUE

\* load_data on an engine in state e, the tables holding t and st
load_data(e, t, st) ==
    LET built == AddTrips(e, t)
    IN [built EXCEPT
          !.drivers_stats =
              [d \in DOMAIN st \cup DOMAIN @ |->
                  IF d \in DOMAIN st THEN st[d] ELSE @[d]]]

\* RecommendationEngine(): __init__
NewEngine(t, st) == load_data(EmptyEngine, t, st)

Dest(n, p) == [name |-> n, province |-> p]

\* dest.get('province', '')
DestProvince(dest) == IF dest.province = Absent THEN EmptyStr ELSE dest.province

\* variant: "is not None" in place of the truth value
Truthy_Mut(p) == p # Null

\* truth value of a province: None and '' are false
Truthy(p) == p # Null /\ p # EmptyStr

\* the locations of loc_dict sharing a word outside the stoplist with the
\* destination
SimilarSet(loc_dict, destination) ==
    {location \in DOMAIN loc_dict :
        (WordSet(destination) \cap WordSet(location)) \ StopWords # {}}

\* len(self._find_similar_locations(destination, driver)): len(similar[:5])
find_similar_locations(em, destination, driver) ==
    Min(Cardinality(SimilarSet(em[driver], destination)), 5)

\* round(num / den, 2) of a quotient of hundredths: to the nearest hundredth,
\* an exact half to the even neighbour
Round2(num, den) ==
    LET q == num \div den
        r == num % den
    IN IF 2 * r < den THEN q
       ELSE IF 2 * r > den THEN q + 1
       ELSE IF q % 2 = 0 THEN q ELSE q + 1

Expl(kind, count, points) == [kind |-> kind, count |-> count, points |-> points]

\* variant: the cap of 40 missing
DirectPoints_Mut(direct_exp) == IF direct_exp > 0 THEN direct_exp * 10 * 100 ELSE 0

\* 1. Direct experience
DirectPoints(direct_exp) == IF direct_exp > 0 THEN Min(direct_exp * 10, 40) * 100 ELSE 0

\* variant: the cap of 30 missing
ProvincePoints_Mut(province_exp) ==
    IF province_exp > 0 THEN province_exp * 3 * 100 ELSE 0

\* 2. Province experience
ProvincePoints(province_exp) ==
    IF province_exp > 0 THEN Min(province_exp * 3, 30) * 100 ELSE 0

\* 3. Similar locations, route variant
SimilarPoints(n) == IF n > 0 THEN Min(n * 4, 20) * 100 ELSE 0

\* 4. Overall experience: min(total_exp * 0.5, 10)
OverallPoints(total_exp) == Min(total_exp * 50, 1000)

\* variant: the explanation appended for every destination
OverallExplained_Mut(i) == TRUE

\* "if i == 1:  # Only add this explanation once"
OverallExplained(i) == i = 1

\* the body of the loop over destinations: destination number i for driver
DestDetail(e, driver, dest, i) ==
    LET dest_name == dest.name
        dest_province == DestProvince(dest)
        direct_exp == Get(e.experience_matrix[driver], dest_name, 0)
        province_exp ==
            IF Truthy(dest_province)
            THEN Get(Get(e.province_experience, driver, EmptyDict), dest_province, 0)
            ELSE 0
        similar == find_similar_locations(e.experience_matrix, dest_name, driver)
        has_stats == driver \in DOMAIN e.drivers_stats
        total_exp == IF has_stats THEN e.drivers_stats[driver].total_trips ELSE 0
        overall == IF has_stats THEN OverallPoints(total_exp) ELSE 0
        dest_score == DirectPoints(direct_exp) + ProvincePoints(province_exp)
                      + SimilarPoints(similar) + overall
        dest_explanations ==
            (IF direct_exp > 0
             THEN <<Expl("direct", direct_exp, DirectPoints(direct_exp))>> ELSE <<>>)
            \o (IF province_exp > 0
                THEN <<Expl("province", province_exp, ProvincePoints(province_exp))>>
                ELSE <<>>)
            \o (IF similar > 0
                THEN <<Expl("similar", similar, SimilarPoints(similar))>> ELSE <<>>)
            \o (IF has_stats /\ OverallExplained(i)
                THEN <<Expl("overall", total_exp, overall)>> ELSE <<>>)
    IN [destination |-> dest_name,
        province |-> dest_province,
        score |-> Round2(dest_score, 1),
        explanations |-> dest_explanations]

\* scores[driver] of calculate_route_score
RouteScore(e, driver, destinations) ==
    LET route_details == [i \in DOMAIN destinations |->
                             DestDetail(e, driver, destinations[i], i)]
        total_score == SumSeq([i \in DOMAIN destinations |-> route_details[i].score])
    IN [driver |-> driver,
        total_score |-> Round2(total_score, 1),
        average_score |-> Round2(total_score, Len(destinations)),
        route_details |-> route_details,
        stats |-> Get(e.drivers_stats, driver, EmptyDict),
        destinations_count |-> Len(destinations)]

\* variant: a route of one destination refused too
InvalidRoute_Mut1(destinations) == Len(destinations) <= 1 \/ Len(destinations) > 4

\* variant: the upper limit off by one
InvalidRoute_Mut(destinations) == destinations = <<>> \/ Len(destinations) > 5

\* the test that raises ValueError("Destinations must be 1-4 locations")
InvalidRoute(destinations) == destinations = <<>> \/ Len(destinations) > 4

\* scores.items() of calculate_route_score, in the order of the keys
calculate_route_score(e, destinations) ==
    [k \in DOMAIN e.keys |-> RouteScore(e, e.keys[k], destinations)]

\* variant: the visit count read with [] instead of .get, which creates the key
AfterScoring_Mut(e, destinations) ==
    [e EXCEPT !.experience_matrix =
        [d \in DOMAIN @ |->
            [l \in DOMAIN @[d] \cup {destinations[i].name : i \in DOMAIN destinations}
                |-> Get(@[d], l, 0)]]]

\* the engine after calculate_route_score: self.province_experience[driver]
\* is read for every driver when a destination has a province
AfterScoring(e, destinations) ==
    IF \E i \in DOMAIN destinations : Truthy(DestProvince(destinations[i]))
    THEN [e EXCEPT !.province_experience =
            [d \in DOMAIN @ \cup Range(e.keys) |-> Get(@, d, EmptyDict)]]
    ELSE e

\* variant: reverse=True forgotten
RECURSIVE SortedAsc_Mut(_, _)
SortedAsc_Mut(items, key) ==
    IF items = <<>> THEN <<>>
    ELSE LET x == items[Len(items)]
             rest == SortedAsc_Mut(SubSeq(items, 1, Len(items) - 1), key)
             before == {i \in DOMAIN rest : rest[i][key] <= x[key]}
         IN SubSeq(rest, 1, Cardinality(before)) \o <<x>>
            \o SubSeq(rest, Cardinality(before) + 1, Len(rest))

\* variant: an item goes before the items of equal key (a sort that is
\* not stable)
RECURSIVE InsertDesc_Mut(_, _, _)
InsertDesc_Mut(sorted, x, key) ==
    IF sorted = <<>> THEN <<x>>
    ELSE IF Head(sorted)[key] > x[key]
         THEN <<Head(sorted)>> \o InsertDesc_Mut(Tail(sorted), x, key)
         ELSE <<x>> \o sorted

\* sorted(..., key=..., reverse=True): stable, so an item goes
\* behind every item whose key is not smaller
RECURSIVE InsertDesc(_, _, _)
InsertDesc(sorted, x, key) ==
    IF sorted = <<>> THEN <<x>>
    ELSE IF Head(sorted)[key] >= x[key]
         THEN <<Head(sorted)>> \o InsertDesc(Tail(sorted), x, key)
         ELSE <<x>> \o sorted

RECURSIVE SortedDesc(_, _)
SortedDesc(items, key) ==
    IF items = <<>> THEN <<>>
    ELSE InsertDesc(SortedDesc(SubSeq(items, 1, Len(items) - 1), key),
                    items[Len(items)], key)

\* variant: the slice one too long
get_top_drivers_Mut(e, destinations, top_n) ==
    LET sorted_drivers == SortedDesc(calculate_route_score(e, destinations), "average_score")
        top == SubSeq(sorted_drivers, 1, Min(top_n + 1, Len(sorted_drivers)))
    IN [i \in DOMAIN top |->
          [rank |-> i,
           driver |-> top[i].driver,
           total_score |-> top[i].total_score,
           average_score |-> top[i].average_score,
           route_details |-> top[i].route_details,
           stats |-> top[i].stats,
           destinations_count |-> top[i].destinations_count]]

\* the list get_top_drivers returns for a valid route
get_top_drivers(e, destinations, top_n) ==
    LET sorted_drivers == SortedDesc(calculate_route_score(e, destinations), "average_score")
        top == SubSeq(sorted_drivers, 1, Min(top_n, Len(sorted_drivers)))
    IN [i \in DOMAIN top |->
          [rank |-> i,
           driver |-> top[i].driver,
           total_score |-> top[i].total_score,
           average_score |-> top[i].average_score,
           route_details |-> top[i].route_details,
           stats |-> top[i].stats,
           destinations_count |-> top[i].destinations_count]]

----------------------------------------------------------------------------
(* DriverRecommendationSystem.  Its hospital_types and the two stats       *)
(* fields derived from them (avg_trips_per_location, hospital_types) are   *)
(* written by build_experience_matrix and read by nothing modelled here;   *)
(* they are left out.                                                      *)

EmptySystem ==
    [keys |-> <<>>,
     experience_matrix |-> EmptyDict,
     province_experience |-> EmptyDict,
     drivers_stats |-> EmptyDict]

\* the inner loop of build_experience_matrix over the drivers of one row
RECURSIVE CountDrivers(_, _, _)
CountDrivers(y, row, pieces) ==
    IF pieces = <<>> THEN y
    ELSE LET driver == Strip(Head(pieces))
         IN IF driver # <<>> /\ driver # <<"nan">>
            THEN CountDrivers(AddTrip(y, Trip(row.loc, row.prov, driver)),
                              row, Tail(pieces))
            ELSE CountDrivers(y, row, Tail(pieces))

\* the loop over the cleaned rows, in order: dropna on location and Driver,
\* and the rows whose Driver cell is the cancelled marker removed; first is
\* the system after the first rows, and the rows after them are counted on it
RECURSIVE CountRows(_, _)
CountRows(y, rows) ==
    IF rows = <<>> THEN y
    ELSE IF Len(rows) = 1
         THEN LET row == rows[1]
              IN IF notna(row.loc) /\ notna(row.drv) /\ row.drv # Cancelled
                 THEN CountDrivers(y, row, Split(Str(row.drv)))
                 ELSE y
    ELSE LET mid == Len(rows) \div 2
         IN CHOOSE built \in
                {CountRows(first, SubSeq(rows, mid + 1, Len(rows))) :
                     first \in {CountRows(y, SubSeq(rows, 1, mid))}} : TRUE

\* _calculate_driver_stats: len(self.province_experience[driver]) creates the
\* driver's province dict when it has none
calculate_driver_stats(y) ==
    LET pe == [d \in DOMAIN y.province_experience \cup Range(y.keys) |->
                  Get(y.province_experience, d, EmptyDict)]
    IN [y EXCEPT
          !.province_experience = pe,
          !.drivers_stats =
              [d \in DOMAIN @ \cup Range(y.keys) |->
                  IF d \in Range(y.keys)
                  THEN [total_trips |-> SumValues(y.experience_matrix[d]),
                        unique_locations |-> Cardinality(DOMAIN y.experience_matrix[d]),
                        provinces_covered |-> Cardinality(DOMAIN pe[d])]
                  ELSE @[d]]]

\* build_experience_matrix on a system in state y holding the sheet rows
build_experience_matrix(y, rows) == calculate_driver_stats(CountRows(y, rows))

\* 3. Similar locations, single-destination variant
SimilarPointsSingle(n) == IF n > 0 THEN Min(n * 5, 20) * 100 ELSE 0

\* 4. Overall experience, single-destination variant
OverallPointsSingle(total_exp) == IF total_exp > 0 THEN Min(total_exp * 50, 1000) ELSE 0

\* scores[driver] of calculate_compatibility_score
SingleScore(y, driver, destination, destination_province) ==
    LET direct_exp == Get(y.experience_matrix[driver], destination, 0)
        province_exp ==
            IF Truthy(destination_province)
            THEN Get(y.province_experience[driver], destination_province, 0)
            ELSE 0
        similar == find_similar_locations(y.experience_matrix, destination, driver)
        total_exp == y.drivers_stats[driver].total_trips
        score == DirectPoints(direct_exp) + ProvincePoints(province_exp)
                 + SimilarPointsSingle(similar) + OverallPointsSingle(total_exp)
        explanations ==
            (IF direct_exp > 0 THEN <<Expl("direct", direct_exp, 0)>> ELSE <<>>)
            \o (IF province_exp > 0 THEN <<Expl("province", province_exp, 0)>> ELSE <<>>)
            \o (IF similar > 0 THEN <<Expl("similar", similar, 0)>> ELSE <<>>)
            \o (IF total_exp > 0 THEN <<Expl("overall", total_exp, 0)>> ELSE <<>>)
    IN [driver |-> driver,
        score |-> Round2(score, 1),
        explanations |-> explanations,
        stats |-> y.drivers_stats[driver]]

\* scores.items() of calculate_compatibility_score, in the order of the keys
calculate_compatibility_score(y, destination, destination_province) ==
    [k \in DOMAIN y.keys |-> SingleScore(y, y.keys[k], destination, destination_province)]

\* get_top_10_drivers: [] for an empty matrix, else the first ten by score
get_top_10_drivers(y, destination, destination_province) ==
    IF y.keys = <<>> THEN <<>>
    ELSE LET sorted_drivers ==
                 SortedDesc(calculate_compatibility_score(
                                y, destination, destination_province), "score")
             top == SubSeq(sorted_drivers, 1, Min(10, Len(sorted_drivers)))
         IN [i \in DOMAIN top |->
               [rank |-> i,
                driver |-> top[i].driver,
                score |-> top[i].score,
                explanations |-> top[i].explanations,
                stats |-> top[i].stats]]

----------------------------------------------------------------------------
(* The application: DriverRecommendationGUI with its DatabaseManager and   *)
(* its RecommendationEngine                                                *)

DestPool == {Dest(L1, P1), Dest(L2, Null)}

\* the routes a user enters: one destination repeated, or two in turn
Routes ==
    { [i \in 1..k |-> IF i % 2 = 1 THEN d[1] ELSE d[2]] :
          k \in 0..MaxRoute, d \in DestPool \X DestPool }

NoOut == [kind |-> "none", destinations |-> <<>>, top_n |-> 0, result |-> <<>>]

NoSysOut == [kind |-> "none", destination |-> <<>>, province |-> Null, result |-> <<>>]

\* raw_data = None
NoData == [loaded |-> FALSE, rows |-> <<>>]

\* no load_thread is running.  trips0 and drivers0 keep the tables as they
\* were when the thread started.
NoLoad ==
    [pc |-> "idle", df |-> TransportError, success |-> FALSE,
     trips0 |-> <<>>, drivers0 |-> EmptyDict]

\* no calculate_thread is running.  engine is the object the thread got from
\* self.recommendation_engine; current: the application still holds it.
NoCalc ==
    [pc |-> "idle", destinations |-> <<>>, engine |-> EmptyEngine,
     current |-> TRUE]

Init ==
    /\ trips = <<>>
    /\ drivers = EmptyDict
    /\ engine = NewEngine(<<>>, EmptyDict)
    /\ out = NoOut
    /\ raw_data = NoData
    /\ sys = EmptySystem
    /\ sysOut = NoSysOut
    /\ locations_data = {}
    /\ load_thread = NoLoad
    /\ load_thread2 = NoLoad
    /\ calculate_thread = NoCalc

\* One caller at a time uses the engine and the store: a handler starts when
\* the outcome of the previous call has been consumed.
Idle == out.kind = "none"

\* load_thread, the import succeeding: the tables are replaced and a new
\* engine is built from them
LoadOk(df) ==
    /\ Idle
    /\ load_from_google_sheets(df)
    /\ trips' = save_trips_data(df)
    /\ drivers' = update_driver_stats(trips')
    /\ engine' = NewEngine(trips', drivers')
    /\ locations_data' = get_locations_list(trips')
    /\ out' = NoOut
    /\ UNCHANGED <<sysVars, load_thread2, load_thread, calculate_thread>>

\* load_thread, load_from_google_sheets returning False
LoadFailed(df) ==
    /\ Idle
    /\ ~load_from_google_sheets(df)
    /\ UNCHANGED vars

\* DriverRecommendationGUI.__init__ on the existing database file
Restart ==
    /\ Idle
    /\ engine' = NewEngine(trips, drivers)
    /\ locations_data' = {}
    /\ out' = NoOut
    /\ UNCHANGED <<trips, drivers>>
    /\ UNCHANGED <<sysVars, load_thread2, load_thread, calculate_thread>>

\* get_top_drivers raising ValueError
RankInvalid(destinations, top_n) ==
    /\ Idle
    /\ InvalidRoute(destinations)
    /\ out' = [kind |-> "ValueError", destinations |-> destinations,
               top_n |-> top_n, result |-> <<>>]
    /\ UNCHANGED <<trips, drivers, engine>>
    /\ UNCHANGED <<sysVars, guiVars>>

\* get_top_drivers returning a ranking
RankOk(destinations, top_n) ==
    /\ Idle
    /\ ~InvalidRoute(destinations)
    /\ out' = [kind |-> "ranking", destinations |-> destinations,
               top_n |-> top_n,
               result |-> get_top_drivers(engine, destinations, top_n)]
    /\ engine' = AfterScoring(engine, destinations)
    /\ UNCHANGED <<trips, drivers>>
    /\ UNCHANGED <<sysVars, guiVars>>

\* the caller takes the outcome (the results are displayed, the error shown)
Return ==
    /\ ~Idle
    /\ out' = NoOut
    /\ UNCHANGED <<trips, drivers, engine>>
    /\ UNCHANGED <<sysVars, guiVars>>

----------------------------------------------------------------------------
(* The stand-alone system: a caller of the DriverRecommendationSystem API  *)

SysRowPool ==
    { Row(L1, P1, <<"A">>),
      Row(L2, Null, <<"A", "+", " ", "B">>),
      Row(L3, P2, <<"B", "+", "cancelled">>),
      Row(L1, P1, <<"cancelled">>) }

SysFrames == SeqsUpTo(SysRowPool, MaxRows)

\* the destinations a caller asks about, each with its province
SysQueries == {<<L1, P1>>, <<L3, Null>>, <<L5, Null>>}

SysIdle == sysOut.kind = "none"

\* the visits counted so far, over all drivers
BuiltTrips(y) ==
    SumSeq([k \in DOMAIN y.keys |-> SumValues(y.experience_matrix[y.keys[k]])])

\* load_sample_data, or load_data_from_sheets returning True
SysLoad(rows) ==
    /\ SysIdle
    /\ raw_data' = [loaded |-> TRUE, rows |-> rows]
    /\ UNCHANGED <<sys, sysOut>>
    /\ UNCHANGED <<appVars, guiVars>>

\* load_data_from_sheets returning False
SysLoadFailed ==
    /\ SysIdle
    /\ UNCHANGED vars

\* build_experience_matrix with no data loaded: it returns at once
SysBuildNoData ==
    /\ SysIdle
    /\ ~raw_data.loaded
    /\ UNCHANGED vars

\* build_experience_matrix
SysBuild ==
    /\ SysIdle
    /\ raw_data.loaded
    /\ BuiltTrips(sys) < MaxSysTrips
    /\ sys' = build_experience_matrix(sys, raw_data.rows)
    /\ UNCHANGED <<raw_data, sysOut>>
    /\ UNCHANGED <<appVars, guiVars>>

\* calculate_compatibility_score
SysScore(destination, destination_province) ==
    /\ SysIdle
    /\ sysOut' = [kind |-> "scores", destination |-> destination,
                  province |-> destination_province,
                  result |-> calculate_compatibility_score(
                                 sys, destination, destination_province)]
    /\ UNCHANGED <<raw_data, sys>>
    /\ UNCHANGED <<appVars, guiVars>>

\* get_top_10_drivers
SysTop10(destination, destination_province) ==
    /\ SysIdle
    /\ sysOut' = [kind |-> "top10", destination |-> destination,
                  province |-> destination_province,
                  result |-> get_top_10_drivers(
                                 sys, destination, destination_province)]
    /\ UNCHANGED <<raw_data, sys>>
    /\ UNCHANGED <<appVars, guiVars>>

\* the caller takes the outcome
SysReturn ==
    /\ ~SysIdle
    /\ sysOut' = NoSysOut
    /\ UNCHANGED <<raw_data, sys>>
    /\ UNCHANGED <<appVars, guiVars>>

\* nothing of the application has run
AppFresh == trips = <<>> /\ engine = NewEngine(<<>>, EmptyDict) /\ Idle

\* nothing of the stand-alone system has run
SysFresh == ~raw_data.loaded /\ sys = EmptySystem /\ SysIdle

\* a process runs one of the two programs
Next ==
    \/ SysFresh /\ Return
    \/ SysFresh /\ \E df \in DataFrames \cup {TransportError} : LoadOk(df)
    \/ SysFresh /\ \E df \in DataFrames \cup {TransportError} : LoadFailed(df)
    \/ SysFresh /\ Restart
    \/ SysFresh /\ \E destinations \in Routes, top_n \in 0..MaxTopN :
                      RankInvalid(destinations, top_n)
    \/ SysFresh /\ \E destinations \in Routes, top_n \in 0..MaxTopN :
                      RankOk(destinations, top_n)
    \/ AppFresh /\ SysReturn
    \/ AppFresh /\ \E rows \in SysFrames : SysLoad(rows)
    \/ AppFresh /\ SysLoadFailed
    \/ AppFresh /\ SysBuildNoData
    \/ AppFresh /\ SysBuild
    \/ AppFresh /\ \E q \in SysQueries : SysScore(q[1], q[2])
    \/ AppFresh /\ \E q \in SysQueries : SysTop10(q[1], q[2])

Spec == Init /\ [][Next]_vars

----------------------------------------------------------------------------
(* The scorers on long histories.  A history is what one import of a sheet *)
(* of single-driver rows leaves in the store: driver A went v times to L1  *)
(* in province P1, q times to L3 in P1 and once to each of k locations     *)
(* whose names share the word "rayong" with L1; driver B went once to L3   *)
(* with an empty province cell.                                            *)

Repeat(x, n) == [i \in 1..n |-> x]

\* a location named "Rayong <i>"
SimilarLocation(i) == <<"Rayong", ToString(i)>>

History(v, q, k) ==
    Repeat(Row(L1, P1, A), v)
    \o Repeat(Row(L3, P1, A), q)
    \o [i \in 1..k |-> Row(SimilarLocation(i), Null, A)]
    \o <<Row(L3, EmptyStr, B)>>

Histories ==
    {History(v, q, k) : v \in 0..MaxVisits, q \in 0..MaxProvinceTrips, k \in 0..MaxSimilar}

L8 == <<"the", "clinic">>

ScoreNames == {L1, L3, L8}

ScoreDests == {Dest(n, p) : n \in ScoreNames, p \in {P1, Null, EmptyStr, Absent}}

ScoreProvinces == {P1, Null, EmptyStr}

\* each destination alone, and first of a route of three
ScoreRoutes ==
    {<<d>> : d \in ScoreDests}
    \cup {<<d, Dest(L1, P1), Dest(L3, Null)>> : d \in ScoreDests}

InitScore ==
    /\ \E rows \in Histories :
          /\ trips = save_trips_data(DataFrame(ExpectedCols, rows))
          /\ raw_data = [loaded |-> TRUE, rows |-> rows]
    /\ drivers = update_driver_stats(trips)
    /\ engine = NewEngine(trips, drivers)
    /\ out = NoOut
    /\ sys = build_experience_matrix(EmptySystem, raw_data.rows)
    /\ sysOut = NoSysOut
    /\ locations_data = get_locations_list(trips)
    /\ load_thread = NoLoad
    /\ load_thread2 = NoLoad
    /\ calculate_thread = NoCalc

\* one call at a time, on either program
NextScore ==
    \/ Return
    \/ SysReturn
    \/ SysIdle /\ \E destinations \in ScoreRoutes : RankOk(destinations, 10)
    \/ Idle /\ \E destination \in ScoreNames, province \in ScoreProvinces :
                  SysScore(destination, province)

SpecScore == InitScore /\ [][NextScore]_vars

----------------------------------------------------------------------------
(* The application with its threads.  load_data starts load_thread and     *)
(* calculate_ranking starts calculate_thread; nothing orders the two.  A   *)
(* step of load_thread is one database transaction: save_trips_data        *)
(* commits the trips, _update_driver_stats then commits the drivers on a   *)
(* connection of its own.  An sqlite3 call can raise (database is locked,  *)
(* disk I/O error): before the commit the transaction is rolled back, and  *)
(* load_from_google_sheets catches the exception and returns False.        *)

GuiTopN == 30

\* the sheets the transport gives: two sheets that pass the validation, an
\* empty one, one of two columns, one whose columns have other names, and
\* one that passes the validation without a location or a Driver column
Sheet1 ==
    << Row(L1, P1, <<"A", "+", " ", "A">>),
       Row(L2, Null, <<"A", "+", "B">>),
       Row(EmptyStr, P1, <<"A">>) >>

Sheet2 ==
    << Row(L3, EmptyStr, <<" ", "B", "+", " ", "+", "cancelled">>),
       Row(L1, P1, <<"A">>) >>

GuiFrames ==
    { DataFrame(ExpectedCols, Sheet1),
      DataFrame(ExpectedCols, Sheet2),
      DataFrame(ExpectedCols, <<>>),
      DataFrame({"loc", "drv"}, Sheet1),
      DataFrame({"c1", "c2", "c3"}, Sheet1),
      DataFrame({"prov", "rep", "c1"}, Sheet1),
      TransportError }

GuiRoutes == {<<>>, <<Dest(L1, P1), Dest(L2, Null)>>}

\* DELETE FROM trips
DeleteTrips_Mut(t) == t

DeleteTrips(t) == <<>>

\* format_results reads these keys of every rank record, and of every
\* per-destination detail visited, destination, province and (when visited)
\* trip_count: "KeyError" when a key read is not there
format_results(destinations, top_drivers) ==
    IF \A i \in DOMAIN top_drivers :
          /\ {"destinations_visited", "destinations_count", "total_trips",
               "rank", "driver", "stats", "route_details"}
                  \subseteq DOMAIN top_drivers[i]
          /\ \A k \in DOMAIN top_drivers[i].route_details :
                LET detail == top_drivers[i].route_details[k]
                IN /\ {"visited", "destination", "province"} \subseteq DOMAIN detail
                   /\ detail.visited => "trip_count" \in DOMAIN detail
    THEN "results" ELSE "KeyError"

\* load_data: the thread is started and the transport gives df
ClickLoad(df) ==
    /\ load_thread.pc = "idle"
    /\ load_thread' = [pc |-> "fetched", df |-> df, success |-> FALSE,
                        trips0 |-> trips, drivers0 |-> drivers]
    /\ UNCHANGED <<appVars, sysVars,
                   load_thread2, locations_data, calculate_thread>>

\* load_from_google_sheets returns False before it saves anything
LoadInvalid ==
    /\ load_thread.pc = "fetched"
    /\ ~load_from_google_sheets(load_thread.df)
    /\ load_thread' = [load_thread EXCEPT !.pc = "done"]
    /\ UNCHANGED <<appVars, sysVars,
                   load_thread2, locations_data, calculate_thread>>

\* save_trips_data up to conn.commit()
SaveTrips ==
    /\ load_thread.pc = "fetched"
    /\ load_from_google_sheets(load_thread.df)
    /\ trips' = DeleteTrips(trips) \o save_trips_data(load_thread.df)
    /\ load_thread' = [load_thread EXCEPT !.pc = "committed"]
    /\ UNCHANGED <<drivers, engine, out, sysVars,
                   load_thread2, locations_data, calculate_thread>>

\* save_trips_data raising before conn.commit(): nothing is written
SaveTripsError ==
    /\ load_thread.pc = "fetched"
    /\ load_from_google_sheets(load_thread.df)
    /\ load_thread' = [load_thread EXCEPT !.pc = "done"]
    /\ UNCHANGED <<appVars, sysVars,
                   load_thread2, locations_data, calculate_thread>>

\* _update_driver_stats; load_from_google_sheets then returns True
UpdateStats ==
    /\ load_thread.pc = "committed"
    /\ drivers' = update_driver_stats(trips)
    /\ load_thread' = [load_thread EXCEPT !.pc = "saved"]
    /\ UNCHANGED <<trips, engine, out, sysVars,
                   load_thread2, locations_data, calculate_thread>>

\* _update_driver_stats raising: load_from_google_sheets returns False
UpdateStatsError ==
    /\ load_thread.pc = "committed"
    /\ load_thread' = [load_thread EXCEPT !.pc = "done"]
    /\ UNCHANGED <<appVars, sysVars,
                   load_thread2, locations_data, calculate_thread>>

\* load_thread after success: a new engine replaces the application's
ReloadEngine ==
    /\ load_thread.pc = "saved"
    /\ engine' = NewEngine(trips, drivers)
    /\ locations_data' = get_locations_list(trips)
    /\ calculate_thread' =
          IF calculate_thread.pc = "scoring"
          THEN [calculate_thread EXCEPT !.current = FALSE]
          ELSE calculate_thread
    /\ load_thread' = [load_thread EXCEPT !.pc = "done", !.success = TRUE]
    /\ UNCHANGED <<trips, drivers, out, sysVars, load_thread2>>

\* load_thread ends, its message shown
LoadEnd ==
    /\ load_thread.pc = "done"
    /\ load_thread' = NoLoad
    /\ UNCHANGED <<appVars, sysVars,
                   load_thread2, locations_data, calculate_thread>>

\* calculate_ranking showing an error: no locations loaded, or a route that
\* is empty or longer than 4
ClickRejected(destinations) ==
    /\ calculate_thread.pc = "idle"
    /\ locations_data = {} \/ InvalidRoute(destinations)
    /\ UNCHANGED vars

\* calculate_ranking starting calculate_thread
ClickCalculate(destinations) ==
    /\ calculate_thread.pc = "idle"
    /\ locations_data # {}
    /\ ~InvalidRoute(destinations)
    /\ calculate_thread' = [pc |-> "started", destinations |-> destinations,
                             engine |-> EmptyEngine, current |-> TRUE]
    /\ UNCHANGED <<appVars, sysVars, load_thread2, locations_data, load_thread>>

\* calculate_thread reads self.recommendation_engine and enters
\* get_top_drivers on that object
CalcCall ==
    /\ calculate_thread.pc = "started"
    /\ calculate_thread' = [calculate_thread EXCEPT !.pc = "scoring",
                                                     !.engine = engine]
    /\ UNCHANGED <<appVars, sysVars, load_thread2, locations_data, load_thread>>

\* get_top_drivers returns; the ranking is formatted
CalcFinish ==
    /\ calculate_thread.pc = "scoring"
    /\ LET destinations == calculate_thread.destinations
           top_drivers == get_top_drivers(calculate_thread.engine,
                                          destinations, GuiTopN)
       IN /\ out' = [kind |-> IF top_drivers = <<>> THEN "NoRecommendations"
                               ELSE format_results(destinations, top_drivers),
                      destinations |-> destinations, top_n |-> GuiTopN,
                      result |-> top_drivers]
          /\ engine' = IF calculate_thread.current
                        THEN AfterScoring(engine, destinations) ELSE engine
    /\ calculate_thread' = [calculate_thread EXCEPT !.pc = "done"]
    /\ UNCHANGED <<trips, drivers, sysVars,
                   load_thread2, locations_data, load_thread>>

\* calculate_thread ends, its results or its error shown
CalcEnd ==
    /\ calculate_thread.pc = "done"
    /\ calculate_thread' = NoCalc
    /\ out' = NoOut
    /\ UNCHANGED <<trips, drivers, engine, sysVars,
                   load_thread2, locations_data, load_thread>>

NextGui ==
    \/ \E df \in GuiFrames : ClickLoad(df)
    \/ LoadInvalid
    \/ SaveTrips
    \/ SaveTripsError
    \/ UpdateStats
    \/ UpdateStatsError
    \/ ReloadEngine
    \/ LoadEnd
    \/ \E destinations \in GuiRoutes : ClickRejected(destinations)
    \/ \E destinations \in GuiRoutes : ClickCalculate(destinations)
    \/ CalcCall
    \/ CalcFinish
    \/ CalcEnd

SpecGui == Init /\ [][NextGui]_vars

----------------------------------------------------------------------------
(* The rankers on stores of many drivers: n drivers went once to L1, and   *)
(* every second of them went there once more.                              *)

Driver(i) == <<"D", ToString(i)>>

Crowd(n) ==
    [k \in 1..n |-> Row(L1, P1, Driver(k))]
    \o [k \in 1..(n \div 2) |-> Row(L1, P1, Driver(2 * k))]

CrowdRoutes == {<<Dest(L1, P1)>>, <<Dest(L3, Null), Dest(L1, P1)>>}

InitCrowd ==
    /\ \E n \in 0..MaxCrowd :
          /\ trips = save_trips_data(DataFrame(ExpectedCols, Crowd(n)))
          /\ raw_data = [loaded |-> TRUE, rows |-> Crowd(n)]
    /\ drivers = update_driver_stats(trips)
    /\ engine = NewEngine(trips, drivers)
    /\ out = NoOut
    /\ sys = build_experience_matrix(EmptySystem, raw_data.rows)
    /\ sysOut = NoSysOut
    /\ locations_data = get_locations_list(trips)
    /\ load_thread = NoLoad
    /\ load_thread2 = NoLoad
    /\ calculate_thread = NoCalc

\* one call at a time, on either program
NextCrowd ==
    \/ Return
    \/ SysReturn
    \/ SysIdle /\ \E destinations \in CrowdRoutes, top_n \in 0..(MaxCrowd + 1) :
                     RankOk(destinations, top_n)
    \/ Idle /\ \E q \in SysQueries : SysTop10(q[1], q[2])

SpecCrowd == InitCrowd /\ [][NextCrowd]_vars

----------------------------------------------------------------------------
(* The aggregates under a rearrangement of the trip records.  A sheet is   *)
(* imported, then imported again with the same rows in another order; both *)
(* programs build their aggregates from what they are given.               *)

OrderRowPool ==
    { Row(L1, P1, <<"A">>),
      Row(L1, P2, <<"A">>),
      Row(L2, Null, <<"B">>),
      Row(L3, EmptyStr, <<"A">>),
      Row(L2, P1, <<"B", "+", " ", "A">>) }

\* the permutations of 1..n
Perms(n) == {p \in [1..n -> 1..n] : \A i, j \in 1..n : p[i] = p[j] => i = j}

\* the sequence s read in the order p
Permuted(s, p) == [i \in DOMAIN s |-> s[p[i]]]

InitOrder ==
    /\ \E rows \in SeqsUpTo(OrderRowPool, MaxOrderRows) :
          /\ trips = save_trips_data(DataFrame(ExpectedCols, rows))
          /\ raw_data = [loaded |-> TRUE, rows |-> rows]
    /\ drivers = update_driver_stats(trips)
    /\ engine = NewEngine(trips, drivers)
    /\ out = NoOut
    /\ sys = build_experience_matrix(EmptySystem, raw_data.rows)
    /\ sysOut = NoSysOut
    /\ locations_data = get_locations_list(trips)
    /\ load_thread = NoLoad
    /\ load_thread2 = NoLoad
    /\ calculate_thread = NoCalc

\* the sheet with its rows in the order p is imported by the application
\* (load_thread from its start to its end), and a new system object is
\* loaded with it and built
Reorder(p) ==
    LET rows == Permuted(raw_data.rows, p)
        df == DataFrame(ExpectedCols, rows)
    IN /\ load_from_google_sheets(df)
       /\ load_thread' = [pc |-> "done", df |-> df, success |-> TRUE,
                           trips0 |-> trips, drivers0 |-> drivers]
       /\ trips' = save_trips_data(df)
       /\ drivers' = update_driver_stats(trips')
       /\ engine' = NewEngine(trips', drivers')
       /\ locations_data' = get_locations_list(trips')
       /\ raw_data' = [loaded |-> TRUE, rows |-> rows]
       /\ sys' = build_experience_matrix(EmptySystem, rows)
       /\ UNCHANGED <<out, sysOut, load_thread2, calculate_thread>>

NextOrder == \E p \in Perms(Len(raw_data.rows)) : Reorder(p)

SpecOrder == InitOrder /\ [][NextOrder]_vars

----------------------------------------------------------------------------
(* Two imports that overlap.  Nothing disables the Load Data button while  *)
(* load_thread runs: a second click starts a second thread on the same     *)
(* DatabaseManager, the same database file and the same                    *)
(* self.recommendation_engine.  Its steps are those of the first thread.   *)

\* load_data while load_thread runs: a second thread is started
ClickLoad2(df) ==
    /\ load_thread.pc # "idle"
    /\ load_thread2.pc = "idle"
    /\ load_thread2' = [pc |-> "fetched", df |-> df, success |-> FALSE,
                         trips0 |-> trips, drivers0 |-> drivers]
    /\ UNCHANGED <<appVars, sysVars, locations_data, load_thread, calculate_thread>>

\* load_from_google_sheets returns False before it saves anything
LoadInvalid2 ==
    /\ load_thread2.pc = "fetched"
    /\ ~load_from_google_sheets(load_thread2.df)
    /\ load_thread2' = [load_thread2 EXCEPT !.pc = "done"]
    /\ UNCHANGED <<appVars, sysVars, locations_data, load_thread, calculate_thread>>

\* save_trips_data up to conn.commit()
SaveTrips2 ==
    /\ load_thread2.pc = "fetched"
    /\ load_from_google_sheets(load_thread2.df)
    /\ trips' = DeleteTrips(trips) \o save_trips_data(load_thread2.df)
    /\ load_thread2' = [load_thread2 EXCEPT !.pc = "committed"]
    /\ UNCHANGED <<drivers, engine, out, sysVars,
                   locations_data, load_thread, calculate_thread>>

\* save_trips_data raising before conn.commit(): nothing is written
SaveTripsError2 ==
    /\ load_thread2.pc = "fetched"
    /\ load_from_google_sheets(load_thread2.df)
    /\ load_thread2' = [load_thread2 EXCEPT !.pc = "done"]
    /\ UNCHANGED <<appVars, sysVars, locations_data, load_thread, calculate_thread>>

\* _update_driver_stats; load_from_google_sheets then returns True
UpdateStats2 ==
    /\ load_thread2.pc = "committed"
    /\ drivers' = update_driver_stats(trips)
    /\ load_thread2' = [load_thread2 EXCEPT !.pc = "saved"]
    /\ UNCHANGED <<trips, engine, out, sysVars,
                   locations_data, load_thread, calculate_thread>>

\* _update_driver_stats raising: load_from_google_sheets returns False
UpdateStatsError2 ==
    /\ load_thread2.pc = "committed"
    /\ load_thread2' = [load_thread2 EXCEPT !.pc = "done"]
    /\ UNCHANGED <<appVars, sysVars, locations_data, load_thread, calculate_thread>>

\* the second thread after success: a new engine replaces the application's
ReloadEngine2 ==
    /\ load_thread2.pc = "saved"
    /\ engine' = NewEngine(trips, drivers)
    /\ locations_data' = get_locations_list(trips)
    /\ calculate_thread' =
          IF calculate_thread.pc = "scoring"
          THEN [calculate_thread EXCEPT !.current = FALSE]
          ELSE calculate_thread
    /\ load_thread2' = [load_thread2 EXCEPT !.pc = "done", !.success = TRUE]
    /\ UNCHANGED <<trips, drivers, out, sysVars, load_thread>>

\* the second thread ends, its message shown
LoadEnd2 ==
    /\ load_thread2.pc = "done"
    /\ load_thread2' = NoLoad
    /\ UNCHANGED <<appVars, sysVars, locations_data, load_thread, calculate_thread>>

NextOverlap ==
    \/ \E df \in GuiFrames : ClickLoad(df)
    \/ LoadInvalid
    \/ SaveTrips
    \/ SaveTripsError
    \/ UpdateStats
    \/ UpdateStatsError
    \/ ReloadEngine
    \/ LoadEnd
    \/ \E df \in GuiFrames : ClickLoad2(df)
    \/ LoadInvalid2
    \/ SaveTrips2
    \/ SaveTripsError2
    \/ UpdateStats2
    \/ UpdateStatsError2
    \/ ReloadEngine2
    \/ LoadEnd2

SpecOverlap == Init /\ [][NextOverlap]_vars

----------------------------------------------------------------------------
(* One more trip record.  The store holds a long history; the sheet that   *)
(* gives the store is imported again with one more single-driver row at    *)
(* its end, and the engine is rebuilt.  raw_data keeps the sheet of the    *)
(* first import.  The histories are those around the caps of the scoring   *)
(* components: 4 visits of the destination, 10 trips in its province, 5    *)
(* similar locations, 20 trips in all.                                     *)

C == <<"C">>

\* the rows added: a trip to L1, one to a further location with a similar
\* name, one to a location and a province not seen before, and trips of
\* another driver and of a new driver
AddedRows ==
    { Row(L1, P1, A),
      Row(SimilarLocation(0), Null, A),
      Row(L8, P2, A),
      Row(L3, EmptyStr, A),
      Row(L1, P1, <<" ", "B">>),
      Row(L3, P1, C) }

\* the sheet of single-driver rows that gives the store t
SheetOf(t) == [i \in DOMAIN t |-> Row(t[i].location, t[i].province, t[i].driver)]

MonoRoutes ==
    LET dests == {Dest(L1, P1), Dest(L3, Null), Dest(L8, P2), Dest(L1, EmptyStr)}
    IN {<<d>> : d \in dests} \cup {<<d, Dest(L1, P1), Dest(L3, P1)>> : d \in dests}

MonoHistories ==
    {History(v, q, k) : v \in {0, 3, 4}, q \in {0, 5, 6, 7, 11, 12}, k \in {0, 4, 5}}

InitMono ==
    /\ \E rows \in MonoHistories :
          /\ trips = save_trips_data(DataFrame(ExpectedCols, rows))
          /\ raw_data = [loaded |-> TRUE, rows |-> rows]
    /\ drivers = update_driver_stats(trips)
    /\ engine = NewEngine(trips, drivers)
    /\ out = NoOut
    /\ sys = build_experience_matrix(EmptySystem, raw_data.rows)
    /\ sysOut = NoSysOut
    /\ locations_data = get_locations_list(trips)
    /\ load_thread = NoLoad
    /\ load_thread2 = NoLoad
    /\ calculate_thread = NoCalc

\* load_thread from its start to its end, on the sheet with one more row
AddRecord(row) ==
    LET df == DataFrame(ExpectedCols, Append(SheetOf(trips), row))
    IN /\ Len(trips) < Len(raw_data.rows) + MaxAdded
       /\ load_from_google_sheets(df)
       /\ load_thread' = [pc |-> "done", df |-> df, success |-> TRUE,
                           trips0 |-> trips, drivers0 |-> drivers]
       /\ trips' = save_trips_data(df)
       /\ drivers' = update_driver_stats(trips')
       /\ engine' = NewEngine(trips', drivers')
       /\ locations_data' = get_locations_list(trips')
       /\ UNCHANGED <<out, sysVars, load_thread2, calculate_thread>>

NextMono == \E row \in AddedRows : AddRecord(row)

SpecMono == InitMono /\ [][NextMono]_vars

----------------------------------------------------------------------------
(* Properties.  What a driver did is read off the trip store itself.       *)

\* the trips of driver d to the location named name
Visits(t, d, name) ==
    Cardinality({i \in DOMAIN t : t[i].driver = d /\ t[i].location = name})

\* the trips of driver d
TripsOf(t, d) == Cardinality({i \in DOMAIN t : t[i].driver = d})

\* two names share a word that is not on the stoplist
Shares(a, b) == (WordSet(a) \cap WordSet(b)) \ StopWords # {}

\* the number k of locations driver d visited whose name shares a word with
\* name, counted up to 5
SimilarVisited(t, d, name) ==
    Min(Cardinality({t[i].location : i \in {j \in DOMAIN t :
                        t[j].driver = d /\ Shares(t[j].location, name)}}), 5)

\* a province a request leaves empty: None, '' or no province key
NoProvince(p) == p \in {Null, EmptyStr, Absent}

\* the explanations of one kind among those of a destination
OfKind(explanations, kind) ==
    {x \in DOMAIN explanations : explanations[x].kind = kind}

\* C1: a ranking request ends with the ValueError exactly when its
\* destination list is empty or longer than 4, whatever the store holds, and
\* then no ranking is returned.
C1_RouteValidation ==
    out.kind # "none" =>
        /\ out.kind = "ValueError" <=>
              (Len(out.destinations) = 0 \/ Len(out.destinations) > 4)
        /\ out.kind = "ValueError" => out.result = <<>>

C1_Witness ==
    /\ out.kind = "ValueError"
    /\ Len(out.destinations) = 5
    /\ engine.keys # <<>>

\* C2: every per-destination score and every average_score of a ranking, and
\* every score of the single-destination scorer, lies between 0 and 100.
C2_ScoreBounds ==
    /\ \A i \in DOMAIN out.result :
          /\ out.result[i].average_score \in 0..10000
          /\ \A j \in DOMAIN out.result[i].route_details :
                out.result[i].route_details[j].score \in 0..10000
    /\ \A i \in DOMAIN sysOut.result : sysOut.result[i].score \in 0..10000

C2_Witness ==
    /\ out.kind = "ranking"
    /\ \E i \in DOMAIN out.result :
          out.result[i].route_details[1].score = 10000

\* C3: every ranking returned on an engine snapshot is the ranking the same
\* request gets on the snapshot as it was built, whatever requests the engine
\* has served since; so equal requests on one snapshot get equal answers.
C3_Determinism ==
    out.kind = "ranking" =>
        out.result = get_top_drivers(NewEngine(trips, drivers),
                                     out.destinations, out.top_n)

C3_Witness ==
    /\ out.kind = "ranking"
    /\ Len(out.result) = 2
    /\ engine # NewEngine(trips, drivers)
    /\ \A i \in DOMAIN out.destinations :
          NoProvince(out.destinations[i].province)

\* C4: a call that returns a ranking or scores leaves the experience matrix,
\* the province experience and the driver stats of its object as they were.
C4_ReadOnly ==
    [][/\ out'.kind = "ranking" =>
            /\ engine'.experience_matrix = engine.experience_matrix
            /\ engine'.province_experience = engine.province_experience
            /\ engine'.drivers_stats = engine.drivers_stats
       /\ sysOut'.kind \in {"scores", "top10"} => sys' = sys]_vars

\* C5: whenever an aggregate is rebuilt it is what the current trip records
\* alone give: nothing counted before the rebuild remains.
C5_RebuildFromScratch ==
    [][/\ sys' # sys => sys' = build_experience_matrix(EmptySystem, raw_data'.rows)
       /\ engine' # engine /\ out'.kind = "none" =>
             engine' = NewEngine(trips', drivers')]_vars

\* the stats of every driver of an aggregate are those its matrices give
StatsMatch(y) ==
    \A d \in Range(y.keys) :
        /\ d \in DOMAIN y.drivers_stats
        /\ y.drivers_stats[d].total_trips = SumValues(y.experience_matrix[d])
        /\ y.drivers_stats[d].unique_locations =
              Cardinality(DOMAIN y.experience_matrix[d])
        /\ y.drivers_stats[d].provinces_covered =
              Cardinality(DOMAIN Get(y.province_experience, d, EmptyDict))

\* C6: in the engine and in the stand-alone system, total_trips is the sum of
\* the driver's location counts, unique_locations the number of its
\* locations and provinces_covered the number of its provinces.
C6_StatsMatchMatrices == StatsMatch(engine) /\ StatsMatch(sys)

C6_Witness ==
    \E d \in Range(engine.keys) :
        /\ engine.drivers_stats[d].total_trips >= 2
        /\ engine.drivers_stats[d].provinces_covered
              < engine.drivers_stats[d].unique_locations

\* total_score is the sum of the destination scores and the list is in
\* non-increasing order of average_score
SumsAndOrder ==
    /\ \A i \in DOMAIN out.result :
          out.result[i].total_score =
              SumSeq([j \in DOMAIN out.result[i].route_details |->
                         out.result[i].route_details[j].score])
    /\ \A i, j \in DOMAIN out.result :
          i < j => out.result[i].average_score >= out.result[j].average_score

\* C7 as stated: with that, average_score times the number of destinations
\* is total_score.
C7_ExactAverage ==
    out.kind = "ranking" =>
        /\ SumsAndOrder
        /\ \A i \in DOMAIN out.result :
              out.result[i].average_score * Len(out.destinations)
                  = out.result[i].total_score

\* C7 amended: average_score is the quotient rounded to a hundredth, so it is
\* within half a hundredth of total_score / number of destinations.
C7_RoundedAverage ==
    out.kind = "ranking" =>
        /\ SumsAndOrder
        /\ \A i \in DOMAIN out.result :
              LET n == Len(out.destinations)
                  diff == out.result[i].average_score * n - out.result[i].total_score
              IN 2 * diff <= n /\ 2 * diff >= -n

C7_Witness ==
    /\ out.kind = "ranking"
    /\ Len(out.destinations) = 3
    /\ Len(out.result) = 2
    /\ out.result[1].average_score > out.result[2].average_score
    /\ out.result[1].average_score * 3 # out.result[1].total_score

\* C8: in a ranking, a destination's similar-location bonus is min(5 k, 20)
\* for the k similar locations the driver visited (at most 5 counted), and
\* there is no such explanation when k = 0.
C8_SimilarBonus ==
    \A i \in DOMAIN out.result :
        \A j \in DOMAIN out.result[i].route_details :
            LET detail == out.result[i].route_details[j]
                k == SimilarVisited(trips, out.result[i].driver, detail.destination)
                given == OfKind(detail.explanations, "similar")
            IN IF k = 0 THEN given = {}
               ELSE /\ Cardinality(given) = 1
                    /\ \A x \in given :
                          detail.explanations[x].points = Min(5 * k, 20) * 100

\* C9: in a ranking, a destination the driver visited v times earns
\* min(10 v, 40) points of direct experience, and none, with no explanation,
\* when v = 0.
C9_DirectCap ==
    \A i \in DOMAIN out.result :
        \A j \in DOMAIN out.result[i].route_details :
            LET detail == out.result[i].route_details[j]
                v == Visits(trips, out.result[i].driver, detail.destination)
                given == OfKind(detail.explanations, "direct")
            IN IF v = 0 THEN given = {}
               ELSE /\ Cardinality(given) = 1
                    /\ \A x \in given :
                          /\ detail.explanations[x].count = v
                          /\ detail.explanations[x].points = Min(10 * v, 40) * 100

C9_Witness ==
    /\ out.kind = "ranking"
    /\ \E i \in DOMAIN out.result :
          /\ Visits(trips, out.result[i].driver, out.destinations[1].name) = 10
          /\ \E x \in OfKind(out.result[i].route_details[1].explanations, "direct") :
                out.result[i].route_details[1].explanations[x].points = 4000

\* C10: a destination whose province is None, '' or missing gets, for every
\* driver, the score of the three other components alone and no province
\* explanation, in the route scorer and in the single-destination scorer.
C10_EmptyProvince ==
    /\ \A i \in DOMAIN out.result :
          \A j \in DOMAIN out.result[i].route_details :
              LET detail == out.result[i].route_details[j]
                  d == out.result[i].driver
              IN NoProvince(out.destinations[j].province) =>
                    /\ OfKind(detail.explanations, "province") = {}
                    /\ detail.score =
                          DirectPoints(Visits(trips, d, detail.destination))
                          + SimilarPoints(SimilarVisited(trips, d, detail.destination))
                          + OverallPoints(TripsOf(trips, d))
    /\ sysOut.kind = "scores" /\ NoProvince(sysOut.province) =>
          \A i \in DOMAIN sysOut.result :
              LET d == sysOut.result[i].driver
              IN /\ OfKind(sysOut.result[i].explanations, "province") = {}
                 /\ sysOut.result[i].score =
                       DirectPoints(Visits(trips, d, sysOut.destination))
                       + SimilarPointsSingle(
                             SimilarVisited(trips, d, sysOut.destination))
                       + OverallPointsSingle(TripsOf(trips, d))

C10_Witness ==
    /\ out.kind = "ranking"
    /\ out.destinations[1].province = EmptyStr
    /\ \E i \in DOMAIN out.result :
          /\ Get(Get(engine.province_experience, out.result[i].driver, EmptyDict),
                 EmptyStr, 0) > 0
          /\ out.result[i].route_details[1].score > 0

\* a location cell that names no place: NaN, '' or no location column
NoLocation(l) == l \in {Null, EmptyStr, Absent}

\* C11: no record of the trip store and no entry of an experience matrix, of
\* the engine or of the stand-alone system, has an empty location or a driver
\* that is, once trimmed, the cancelled marker.
C11_NoCancelledNoEmpty ==
    /\ \A i \in DOMAIN trips :
          /\ ~NoLocation(trips[i].location)
          /\ Strip(trips[i].driver) # Cancelled
    /\ \A y \in {engine, sys} :
          \A d \in DOMAIN y.experience_matrix :
              /\ Strip(d) # Cancelled
              /\ \A l \in DOMAIN y.experience_matrix[d] : ~NoLocation(l)

\* a trimmed piece of a Driver cell that names somebody
IsName(n) == n # <<>>

\* a name that stands for a driver: not the cancelled marker, not str(NaN)
IsDriver(n) == n # Cancelled /\ n # <<"nan">>

\* how often x occurs in the sequence s
Occurrences(s, x) == Cardinality({k \in DOMAIN s : s[k] = x})

\* the names a Driver cell holds between the "+", trimmed, in order
Names(cell) ==
    LET pieces == Split(cell)
    IN SelectSeq([k \in DOMAIN pieces |-> Strip(pieces[k])], IsName)

\* the rows of a sheet that have a location cell and a Driver cell
Usable(rows) ==
    {i \in DOMAIN rows : rows[i].loc \notin {Null, Absent}
                          /\ rows[i].drv \notin {Null, Absent}}

\* save_trips_data has committed the sheet of load_thread
Saved ==
    \/ load_thread.pc \in {"committed", "saved"}
    \/ load_thread.pc = "done" /\ load_thread.success

\* C12: once a sheet is saved, every driver named in a row has, for the
\* row's location, one visit for each row of the sheet that names it there:
\* a row raises the count of each driver it names by exactly 1.
C12_OneVisitPerNamedDriver ==
    Saved =>
        LET rows == load_thread.df.rows
        IN \A i \in Usable(rows) :
              \A k \in DOMAIN Names(rows[i].drv) :
                  LET n == Names(rows[i].drv)[k]
                  IN IsDriver(n) =>
                        Visits(trips, n, rows[i].loc) =
                            Cardinality({j \in Usable(rows) :
                                /\ rows[j].loc = rows[i].loc
                                /\ Occurrences(Names(rows[j].drv), n) > 0})

\* C13: a trip record with an empty province counts for its location in the
\* experience matrix, but no province entry is made for it and it does not
\* add to provinces_covered, in the store, the engine or the stand-alone
\* system.
C13_EmptyProvinceNotCounted ==
    /\ \A i \in DOMAIN trips :
          LET d == trips[i].driver
          IN Get(Get(engine.experience_matrix, d, EmptyDict), trips[i].location, 0)
                 = Visits(trips, d, trips[i].location)
    /\ \A y \in {engine, sys} :
          \A d \in DOMAIN y.province_experience :
              \A p \in DOMAIN y.province_experience[d] : ~NoProvince(p)
    /\ \A d \in DOMAIN drivers :
          drivers[d].provinces_covered =
              Cardinality({p \in {trips[i].province :
                                      i \in {j \in DOMAIN trips : trips[j].driver = d}} :
                              ~NoProvince(p)})

\* the places <<row, piece>> of a sheet that name a driver
Named(rows) ==
    UNION {{<<i, k>> : k \in {x \in DOMAIN Names(rows[i].drv) :
                                  IsDriver(Names(rows[i].drv)[x])}} :
           i \in Usable(rows)}

\* the trip record that the place at of a sheet stands for
RecordAt(rows, at) ==
    Trip(rows[at[1]].loc,
         IF rows[at[1]].prov = Absent THEN EmptyStr ELSE rows[at[1]].prov,
         Names(rows[at[1]].drv)[at[2]])

\* the drivers table is what the records of the trip store give
StatsOfStore ==
    /\ DOMAIN drivers = {trips[i].driver : i \in DOMAIN trips}
    /\ \A d \in DOMAIN drivers :
          LET mine == {i \in DOMAIN trips : trips[i].driver = d}
          IN /\ drivers[d].total_trips = Cardinality(mine)
             /\ drivers[d].unique_locations =
                   Cardinality({trips[i].location : i \in mine})
             /\ drivers[d].provinces_covered =
                   Cardinality({trips[i].province : i \in mine} \ {Null})

\* C14: once save_trips_data has committed a sheet, the trip store holds one
\* record for each place of that sheet that names a driver and no other
\* record, whatever it held before; and once _update_driver_stats has run,
\* the drivers table is computed from those records.
C14_WholesaleRefresh ==
    /\ Saved =>
          LET rows == load_thread.df.rows
          IN /\ Len(trips) = Cardinality(Named(rows))
             /\ \A at \in Named(rows) :
                   Occurrences(trips, RecordAt(rows, at)) =
                       Cardinality({other \in Named(rows) :
                           RecordAt(rows, other) = RecordAt(rows, at)})
    /\ (load_thread.pc = "saved" \/ (load_thread.pc = "done" /\ load_thread.success))
          => StatsOfStore

C14_Witness ==
    /\ load_thread.pc = "done"
    /\ load_thread.success
    /\ trips # <<>>
    /\ \E i \in DOMAIN load_thread.trips0 :
          Occurrences(trips, load_thread.trips0[i]) = 0
    /\ drivers # load_thread.drivers0

\* C15: when an import has reported failure, the trip store and the drivers
\* table are what they were when the import started.
C15_FailedImportChangesNothing ==
    load_thread.pc = "done" /\ ~load_thread.success =>
        /\ trips = load_thread.trips0
        /\ drivers = load_thread.drivers0

\* C17: no ranking is being computed while a refresh is in progress.
C17_RefreshExcludesRanking ==
    ~(/\ calculate_thread.pc = "scoring"
      /\ load_thread.pc \in {"fetched", "committed", "saved"})

\* C16: a ranking request with 1 to 4 destinations on an aggregate without
\* drivers ends without an exception and returns the empty list, in the
\* engine and in the stand-alone system.
C16_EmptyDataset ==
    /\ (/\ out.kind # "none"
        /\ Len(out.destinations) \in 1..4
        /\ DOMAIN engine.experience_matrix = {})
          => out.kind = "ranking" /\ out.result = <<>>
    /\ (/\ sysOut.kind \in {"scores", "top10"}
        /\ DOMAIN sys.experience_matrix = {})
          => sysOut.result = <<>>

C16_Witness ==
    /\ out.kind = "ranking"
    /\ Len(out.destinations) = 1
    /\ out.top_n > 0
    /\ DOMAIN engine.experience_matrix = {}
    /\ trips = <<>>

\* the destinations of the route that driver d has visited
DestinationsVisited(d) ==
    Cardinality({j \in DOMAIN out.destinations :
                    Visits(trips, d, out.destinations[j].name) > 0})

\* the visits of driver d to the destinations of the route
RouteTrips(d) ==
    SumSeq([j \in DOMAIN out.destinations |->
               Visits(trips, d, out.destinations[j].name)])

\* C18: every rank record carries destinations_visited and total_trips, the
\* number of route destinations its driver visited and its visits to them,
\* and the records are in the order of destinations_visited, then
\* total_trips, both descending, so that a driver without a visit comes
\* after every driver with one.
C18_ActualVisitRanking ==
    out.kind = "ranking" =>
        /\ \A i \in DOMAIN out.result :
              /\ {"destinations_visited", "total_trips"} \subseteq DOMAIN out.result[i]
              /\ out.result[i].destinations_visited =
                    DestinationsVisited(out.result[i].driver)
              /\ out.result[i].total_trips = RouteTrips(out.result[i].driver)
        /\ \A i, j \in DOMAIN out.result :
              i < j =>
                  LET a == out.result[i].driver
                      b == out.result[j].driver
                  IN \/ DestinationsVisited(a) > DestinationsVisited(b)
                     \/ /\ DestinationsVisited(a) = DestinationsVisited(b)
                        /\ RouteTrips(a) >= RouteTrips(b)

\* the trips of driver d in the province p
ProvinceTrips(t, d, p) ==
    Cardinality({i \in DOMAIN t : t[i].driver = d /\ t[i].province = p})

\* the explanation list has n entries of the kind
Entries(explanations, kind, n) == Cardinality(OfKind(explanations, kind)) = n

\* the entries of the three components scored per destination, for driver
\* d of the engine and the destination dest
PerDestinationEntries(explanations, d, dest) ==
    /\ Entries(explanations, "direct",
               IF Visits(trips, d, dest.name) > 0 THEN 1 ELSE 0)
    /\ Entries(explanations, "province",
               IF ~NoProvince(dest.province)
                  /\ ProvinceTrips(trips, d, dest.province) > 0 THEN 1 ELSE 0)
    /\ Entries(explanations, "similar",
               IF SimilarVisited(trips, d, dest.name) > 0 THEN 1 ELSE 0)

\* the entries of the single-destination scorer for driver d
SingleEntries(explanations, d) ==
    LET visited == sys.experience_matrix[d]
    IN /\ Entries(explanations, "direct",
                  IF Get(visited, sysOut.destination, 0) > 0 THEN 1 ELSE 0)
       /\ Entries(explanations, "province",
                  IF ~NoProvince(sysOut.province)
                     /\ Get(sys.province_experience[d], sysOut.province, 0) > 0
                  THEN 1 ELSE 0)
       /\ Entries(explanations, "similar",
                  IF \E l \in DOMAIN visited : Shares(l, sysOut.destination)
                  THEN 1 ELSE 0)
       /\ Entries(explanations, "overall",
                  IF SumValues(visited) > 0 THEN 1 ELSE 0)

\* C19 as stated: every destination's list has one entry for each of the
\* four components that gave points and none for the others; the overall
\* component gives points on every destination to a driver with stats.
C19_EntryPerComponent ==
    /\ out.kind = "ranking" =>
          \A i \in DOMAIN out.result :
              \A j \in DOMAIN out.result[i].route_details :
                  LET d == out.result[i].driver
                      explanations == out.result[i].route_details[j].explanations
                  IN /\ PerDestinationEntries(explanations, d, out.destinations[j])
                     /\ Entries(explanations, "overall",
                                IF d \in DOMAIN drivers THEN 1 ELSE 0)
    /\ sysOut.kind = "scores" =>
          \A i \in DOMAIN sysOut.result :
              SingleEntries(sysOut.result[i].explanations, sysOut.result[i].driver)

\* C19 amended: the same for the direct, province and similar components;
\* the overall component has its entry in the list of the first destination
\* of the route only.
C19_OverallEntryOnce ==
    /\ out.kind = "ranking" =>
          \A i \in DOMAIN out.result :
              \A j \in DOMAIN out.result[i].route_details :
                  LET d == out.result[i].driver
                      explanations == out.result[i].route_details[j].explanations
                  IN /\ PerDestinationEntries(explanations, d, out.destinations[j])
                     /\ Entries(explanations, "overall",
                                IF d \in DOMAIN drivers /\ j = 1 THEN 1 ELSE 0)
                     /\ Len(explanations) =
                           Cardinality(UNION {OfKind(explanations, kind) :
                               kind \in {"direct", "province", "similar", "overall"}})
    /\ sysOut.kind = "scores" =>
          \A i \in DOMAIN sysOut.result :
              SingleEntries(sysOut.result[i].explanations, sysOut.result[i].driver)

C19_Witness ==
    /\ out.kind = "ranking"
    /\ Len(out.destinations) = 4
    /\ \E i \in DOMAIN out.result :
          /\ OfKind(out.result[i].route_details[1].explanations, "overall") # {}
          /\ OfKind(out.result[i].route_details[1].explanations, "province") # {}
          /\ OfKind(out.result[i].route_details[2].explanations, "direct") # {}
          /\ OfKind(out.result[i].route_details[2].explanations, "similar") # {}
          /\ OfKind(out.result[i].route_details[2].explanations, "overall") = {}

\* the list has k records, ranked 1..k, of k different drivers
RankedOnce(result, k) ==
    /\ Len(result) = k
    /\ \A i \in DOMAIN result : result[i].rank = i
    /\ \A i, j \in DOMAIN result : i # j => result[i].driver # result[j].driver

\* C20: a ranking of the engine has min(top_n, number of drivers) records
\* and a list of get_top_10_drivers has min(10, number of drivers); the
\* ranks are 1, 2, ... in list order and no driver appears twice.
C20_TopN ==
    /\ out.kind = "ranking" =>
          RankedOnce(out.result,
                     Min(out.top_n, Cardinality({trips[i].driver : i \in DOMAIN trips})))
    /\ sysOut.kind = "top10" =>
          RankedOnce(sysOut.result,
                     Min(10, Cardinality(DOMAIN sys.experience_matrix)))

C20_Witness ==
    /\ out.kind = "ranking"
    /\ out.top_n = 10
    /\ Len(out.result) = 10
    /\ Cardinality({trips[i].driver : i \in DOMAIN trips}) = 11
    /\ out.result[1].average_score > out.result[10].average_score

\* C21: aggregation is order-independent.  When the same trip records are
\* aggregated in another order, every (driver, location) count, every
\* (driver, province) count and the DriverStats are what they were, in the
\* engine and in the stand-alone system.
C21_OrderIndependent ==
    [][ /\ engine'.experience_matrix = engine.experience_matrix
        /\ engine'.province_experience = engine.province_experience
        /\ engine'.drivers_stats = engine.drivers_stats
        /\ sys'.experience_matrix = sys.experience_matrix
        /\ sys'.province_experience = sys.province_experience
        /\ sys'.drivers_stats = sys.drivers_stats ]_vars

\* a sheet was imported again in another order: the store holds the records
\* it held in a different sequence, the drivers are first met in another
\* order, and a driver has two trips to one location in two provinces
C21_Witness ==
    /\ load_thread.pc = "done"
    /\ trips # load_thread.trips0
    /\ Len(trips) >= 3
    /\ engine.keys # NewEngine(load_thread.trips0, load_thread.drivers0).keys
    /\ \E d \in DOMAIN engine.experience_matrix :
          \E l \in DOMAIN engine.experience_matrix[d] :
             /\ engine.experience_matrix[d][l] >= 2
             /\ Cardinality(DOMAIN engine.province_experience[d]) >= 2

\* the position in the trip store of the first trip record of driver d
FirstTrip(t, d) ==
    CHOOSE i \in DOMAIN t :
        t[i].driver = d /\ \A j \in 1..(i - 1) : t[j].driver # d

\* C22: in a ranking, drivers of equal average_score stand in the order in
\* which they first occur in the trip records, whatever the route.
C22_TieOrder ==
    out.kind = "ranking" =>
        \A i, j \in DOMAIN out.result :
            i < j /\ out.result[i].average_score = out.result[j].average_score
            => FirstTrip(trips, out.result[i].driver)
                   < FirstTrip(trips, out.result[j].driver)

\* a ranking of B before A with equal scores above zero: B's first trip
\* record is before A's
C22_Witness ==
    /\ out.kind = "ranking"
    /\ Len(out.result) >= 2
    /\ out.result[1].driver = B
    /\ out.result[2].driver = A
    /\ out.result[1].average_score = out.result[2].average_score
    /\ out.result[1].average_score > 0

\* C23: the engine the application ranks with is built from one state of the
\* store: its drivers_stats are the stats of the very trip records its
\* experience_matrix counts (every driver of the matrix has stats, the stats
\* are those the matrix gives, and no other driver has stats), also when
\* two imports overlap.
C23_SnapshotFromOneStore ==
    /\ StatsMatch(engine)
    /\ DOMAIN engine.drivers_stats = Range(engine.keys)

\* C24: a Calculate Ranking request with 1 to 4 destinations against a
\* loaded, non-empty dataset ends with the ranked results displayed, not
\* with a calculation error: format_results finds every key it reads in the
\* records get_top_drivers returned.
C24_ResultsDisplayed ==
    calculate_thread.pc = "done" /\ calculate_thread.engine.keys # <<>>
        => out.kind = "results"

\* the scores of driver d for a route, from the engine e: the score of each
\* destination and the average
ScoresOf(e, d, destinations) ==
    LET s == RouteScore(e, d, destinations)
    IN [route |-> [i \in DOMAIN destinations |-> s.route_details[i].score],
        average_score |-> s.average_score]

\* C25: scores are monotone in experience.  When one more trip record of a
\* driver was added and the aggregate rebuilt, no per-destination score and
\* no average_score of that driver is lower than it was with the engine
\* built before, for any route, and the scores of every other driver are what
\* they were.
C25_Monotone ==
    load_thread.pc = "done" =>
        LET before == NewEngine(load_thread.trips0, load_thread.drivers0)
            added == trips[Len(trips)].driver
        IN \A destinations \in MonoRoutes, d \in Range(before.keys) :
              LET old == ScoresOf(before, d, destinations)
                  new == ScoresOf(engine, d, destinations)
              IN /\ new.average_score >= old.average_score
                 /\ \A i \in DOMAIN destinations : new.route[i] >= old.route[i]
                 /\ d # added => new = old

\* a record of A was added to a history in which B has trips too, and for a
\* route of three destinations the average of A is higher than before while
\* its score for one destination of the route is at its cap and unchanged
C25_Witness ==
    /\ load_thread.pc = "done"
    /\ Len(trips) = Len(load_thread.trips0) + 1
    /\ trips[Len(trips)].driver = A
    /\ B \in Range(engine.keys)
    /\ LET before == NewEngine(load_thread.trips0, load_thread.drivers0)
           route == <<Dest(L8, P2), Dest(L1, P1), Dest(L3, P1)>>
           old == ScoresOf(before, A, route)
           new == ScoresOf(engine, A, route)
       IN /\ A \in Range(before.keys)
          /\ new.average_score > old.average_score
          /\ new.route[2] = old.route[2]
          /\ old.route[2] = 10000

====
